---- MODULE Spec2Model ----
\* MerkleStore (core/src/state/merkle_store.rs): an in-memory overlay
\* (`cache`, a Mutex<HashMap<Vec<u8>, Vec<u8>>>) in front of a persistent
\* engine (`db`, a Mutex<DB>), shared by clones of the store that run in
\* different threads.  A method is one action per guard it takes, with the
\* work it does under that guard, one action per iteration of the commit
\* loop, and one action per guard it drops at its exit.
EXTENDS Integers, Sequences, FiniteSets, TLC

\* ---------------------------------------------------------------- bounds
NumThreads == 2        \* clones of the store used concurrently
NumLeafKeys == 1       \* distinct leaf hashes (H256, one byte wide here)

\* The rest of the universe: one branch identifier, one leaf payload, one
\* branch node and the unit value; the three payloads have different bytes
\* and different types.
BranchIds == {1}
LeafPayloads == {1}
BranchPayloads == {1}

Threads == 1..NumThreads

\* ------------------------------------------------------- Option<T> values
None == << >>
Some(x) == << x >>
IsSome(o) == Len(o) = 1
Unwrap(o) == o[1]

\* ------------------------------------------------------------ byte codec
\* Bytes are sequences of byte values.  serde_json writes a number as its
\* decimal digits, a struct as an object of its named fields and a missing
\* Option as the literal null, all without whitespace; it reads JSON with
\* whitespace (space, \n, \r, \t) before, between and after the tokens.
NullBytes == <<110, 117, 108, 108>>
EmptyVec == << >>

RECURSIVE Digits(_)
Digits(n) == IF n < 10 THEN <<48 + n>> ELSE Digits(n \div 10) \o <<48 + (n % 10)>>

IsDigit(b) == b >= 48 /\ b <= 57

\* JSON number grammar: at least one digit, no leading zero.
IsNumber(bytes) ==
    /\ Len(bytes) >= 1
    /\ \A i \in 1..Len(bytes) : IsDigit(bytes[i])
    /\ (Len(bytes) > 1 => bytes[1] # 48)

\* The number the digits write; the payloads of the model are small numbers.
RECURSIVE NumberOf(_)
NumberOf(bytes) ==
    IF Len(bytes) = 0 THEN 0
    ELSE 10 * NumberOf(SubSeq(bytes, 1, Len(bytes) - 1)) + (bytes[Len(bytes)] - 48)

\* A typed payload: ty is the type parameter V of put/get ("leaf" for a
\* numeric leaf type, "branch" for BranchNode, "unit" for a V such as () or
\* an Option's None, which serde_json writes as null), n its content.
LeafValues == [ty : {"leaf"}, n : LeafPayloads]
BranchValues == [ty : {"branch"}, n : BranchPayloads]
UnitValues == [ty : {"unit"}, n : {0}]
Values == LeafValues \cup BranchValues \cup UnitValues
NoValue == [ty |-> "none", n |-> 0]
Types == {"leaf", "branch", "unit"}

\* JSON of a struct with the one field n: {"n":<number>}
ObjectOf(n) == <<123, 34, 110, 34, 58>> \o Digits(n) \o <<125>>

\* to_vec(value): a leaf is a JSON number, a branch node a JSON object, the
\* unit value the literal null.
ToVec(v) ==
    IF v.ty = "leaf" THEN Digits(v.n)
    ELSE IF v.ty = "branch" THEN ObjectOf(v.n)
    ELSE NullBytes

IsSpace(b) == b \in {32, 10, 13, 9}

RECURSIVE TrimLeft(_)
TrimLeft(bytes) ==
    IF Len(bytes) > 0 /\ IsSpace(bytes[1]) THEN TrimLeft(Tail(bytes)) ELSE bytes

RECURSIVE TrimRight(_)
TrimRight(bytes) ==
    IF Len(bytes) > 0 /\ IsSpace(bytes[Len(bytes)])
    THEN TrimRight(SubSeq(bytes, 1, Len(bytes) - 1))
    ELSE bytes

Trim(bytes) == TrimRight(TrimLeft(bytes))

\* The byte at position p, -1 outside the input (and at the position 0 that
\* a failed scan returns).
At(bytes, p) == IF p >= 1 /\ p <= Len(bytes) THEN bytes[p] ELSE -1

\* u64::MAX in decimal digits
MaxU64Digits ==
    <<49, 56, 52, 52, 54, 55, 52, 52, 48, 55, 51, 55, 48, 57, 53, 53, 49, 54, 49, 53>>

RECURSIVE DigitsLeq(_, _)
DigitsLeq(a, b) ==
    IF Len(a) = 0 THEN TRUE
    ELSE IF a[1] # b[1] THEN a[1] < b[1]
    ELSE DigitsLeq(Tail(a), Tail(b))

\* A JSON number that a u64 takes: digits only, no leading zero, at most
\* u64::MAX.
IsU64(bytes) ==
    /\ IsNumber(bytes)
    /\ \/ Len(bytes) < Len(MaxU64Digits)
       \/ Len(bytes) = Len(MaxU64Digits) /\ DigitsLeq(bytes, MaxU64Digits)

\* The scanners below take a position in the input and return the position
\* after what they read, 0 when the input is not JSON there.
RECURSIVE SkipWs(_, _)
SkipWs(bytes, p) ==
    IF p = 0 THEN 0
    ELSE IF IsSpace(At(bytes, p)) THEN SkipWs(bytes, p + 1)
    ELSE p

RECURSIVE SkipDigits(_, _)
SkipDigits(bytes, p) ==
    IF IsDigit(At(bytes, p)) THEN SkipDigits(bytes, p + 1) ELSE p

\* number: -? (0 | [1-9][0-9]*) (. [0-9]+)? ([eE] [+-]? [0-9]+)?
\* The integer part at a (after the sign).
SkipInt(bytes, a) ==
    IF At(bytes, a) = 48 THEN (IF IsDigit(At(bytes, a + 1)) THEN 0 ELSE a + 1)
    ELSE IF IsDigit(At(bytes, a)) THEN SkipDigits(bytes, a + 1)
    ELSE 0

\* The digits that must follow the point or the exponent mark.
SkipDigits1(bytes, x) ==
    IF IsDigit(At(bytes, x)) THEN SkipDigits(bytes, x + 1) ELSE 0

\* The fraction, if any, after the integer part that ended at i.
SkipFrac(bytes, i) ==
    IF i = 0 THEN 0
    ELSE IF At(bytes, i) # 46 THEN i
    ELSE SkipDigits1(bytes, i + 1)

\* The exponent, if any, after the fraction that ended at f.
SkipExp(bytes, f) ==
    IF f = 0 THEN 0
    ELSE IF At(bytes, f) \notin {101, 69} THEN f
    ELSE SkipDigits1(bytes, IF At(bytes, f + 1) \in {43, 45} THEN f + 2 ELSE f + 1)

SkipNumber(bytes, p) ==
    IF p = 0 THEN 0
    ELSE SkipExp(bytes, SkipFrac(bytes, SkipInt(bytes,
                     IF At(bytes, p) = 45 THEN p + 1 ELSE p)))

IsHex(b) == IsDigit(b) \/ (b >= 65 /\ b <= 70) \/ (b >= 97 /\ b <= 102)

\* The rest of a string, p after its opening quote: up to the closing quote,
\* with the escapes of JSON and no raw control character.
RECURSIVE SkipString(_, _)
SkipString(bytes, p) ==
    LET c == At(bytes, p)
        e == At(bytes, p + 1)
    IN IF p = 0 \/ c < 32 THEN 0
       ELSE IF c = 34 THEN p + 1
       ELSE IF c # 92 THEN SkipString(bytes, p + 1)
       ELSE IF e \in {34, 92, 47, 98, 102, 110, 114, 116} THEN SkipString(bytes, p + 2)
       ELSE IF e = 117 /\ \A d \in 2..5 : IsHex(At(bytes, p + d))
           THEN SkipString(bytes, p + 6)
       ELSE 0

\* The value of a hex digit, and of the four hex digits at p.
HexVal(b) == IF IsDigit(b) THEN b - 48 ELSE IF b >= 97 THEN b - 87 ELSE b - 55

Hex4(bytes, p) ==
    4096 * HexVal(At(bytes, p)) + 256 * HexVal(At(bytes, p + 1))
        + 16 * HexVal(At(bytes, p + 2)) + HexVal(At(bytes, p + 3))

IsHex4(bytes, p) == \A d \in 0..3 : IsHex(At(bytes, p + d))

\* A continuation byte of UTF-8.
IsCont(b) == b >= 128 /\ b <= 191

\* The length of the UTF-8 sequence that starts with the byte c >= 128,
\* followed by c1, c2 and c3; 0 when the bytes are not valid UTF-8
\* (str::from_utf8: no overlong form, no surrogate, nothing above U+10FFFF).
Utf8Len(c, c1, c2, c3) ==
    IF c >= 194 /\ c <= 223 THEN (IF IsCont(c1) THEN 2 ELSE 0)
    ELSE IF c >= 224 /\ c <= 239
        THEN (IF /\ IsCont(c1) /\ IsCont(c2)
                 /\ (c = 224 => c1 >= 160)
                 /\ (c = 237 => c1 <= 159)
              THEN 3 ELSE 0)
    ELSE IF c >= 240 /\ c <= 244
        THEN (IF /\ IsCont(c1) /\ IsCont(c2) /\ IsCont(c3)
                 /\ (c = 240 => c1 >= 144)
                 /\ (c = 244 => c1 <= 143)
              THEN 4 ELSE 0)
    ELSE 0

\* The rest of a string that is decoded (parse_str), p after its opening
\* quote: as SkipString, and the string must be valid UTF-8 and a \u escape
\* of a surrogate must be the leading one of a pair of escapes.
RECURSIVE ParseStr(_, _)

\* The raw byte at p starts a UTF-8 sequence of `len` bytes.
ParseUtf8(bytes, p, len) ==
    IF len = 0 THEN 0 ELSE ParseStr(bytes, p + len)

\* The escape \uXXXX at p has the value n.
ParseUnicode(bytes, p, n) ==
    IF n >= 56320 /\ n <= 57343 THEN 0
    ELSE IF n < 55296 \/ n > 57343 THEN ParseStr(bytes, p + 6)
    ELSE IF /\ At(bytes, p + 6) = 92
            /\ At(bytes, p + 7) = 117
            /\ IsHex4(bytes, p + 8)
            /\ Hex4(bytes, p + 8) >= 56320
            /\ Hex4(bytes, p + 8) <= 57343
        THEN ParseStr(bytes, p + 12)
    ELSE 0

ParseStr(bytes, p) ==
    LET c == At(bytes, p)
        e == At(bytes, p + 1)
    IN IF p = 0 \/ c < 32 THEN 0
       ELSE IF c = 34 THEN p + 1
       ELSE IF c >= 128
           THEN ParseUtf8(bytes, p, Utf8Len(c, e, At(bytes, p + 2), At(bytes, p + 3)))
       ELSE IF c # 92 THEN ParseStr(bytes, p + 1)
       ELSE IF e \in {34, 92, 47, 98, 102, 110, 114, 116} THEN ParseStr(bytes, p + 2)
       ELSE IF e = 117 /\ IsHex4(bytes, p + 2)
           THEN ParseUnicode(bytes, p, Hex4(bytes, p + 2))
       ELSE 0

\* true, false, null
SkipLiteral(bytes, p, lit) ==
    IF p >= 1 /\ p + Len(lit) - 1 <= Len(bytes) /\ SubSeq(bytes, p, p + Len(lit) - 1) = lit
    THEN p + Len(lit)
    ELSE 0

\* A string, a number, true, false or null at p.
SkipScalar(bytes, p) ==
    LET c == At(bytes, p) IN
    IF c = 34 THEN SkipString(bytes, p + 1)
    ELSE IF c = 116 THEN SkipLiteral(bytes, p, <<116, 114, 117, 101>>)
    ELSE IF c = 102 THEN SkipLiteral(bytes, p, <<102, 97, 108, 115, 101>>)
    ELSE IF c = 110 THEN SkipLiteral(bytes, p, NullBytes)
    ELSE IF c = 45 \/ IsDigit(c) THEN SkipNumber(bytes, p)
    ELSE 0

\* The colon at r and the whitespace after it.
SkipColonAt(bytes, r) ==
    IF At(bytes, r) = 58 THEN SkipWs(bytes, r + 1) ELSE 0

\* The colon after the key that ended at q: the position of the member's
\* value.
SkipColon(bytes, q) == SkipColonAt(bytes, SkipWs(bytes, q))

\* The key of a member at p and the colon after it.
SkipKey(bytes, p) ==
    IF At(bytes, p) = 34 THEN SkipColon(bytes, SkipString(bytes, p + 1)) ELSE 0

\* The scan of a value with the arrays and objects in `open` (their opening
\* bytes, innermost last) not yet closed: a value starts at p, or, when
\* `ended`, a value has just ended before p and a comma or the closing byte
\* of the innermost container follows.
RECURSIVE Scan(_, _, _, _)

\* A value starts at p; q is the position after an opening byte at p.
ScanValue(bytes, p, open, q) ==
    IF At(bytes, p) = 91
    THEN (IF At(bytes, q) = 93 THEN Scan(bytes, q + 1, open, TRUE)
          ELSE Scan(bytes, q, Append(open, 91), FALSE))
    ELSE IF At(bytes, p) = 123
    THEN (IF At(bytes, q) = 125 THEN Scan(bytes, q + 1, open, TRUE)
          ELSE Scan(bytes, SkipKey(bytes, q), Append(open, 123), FALSE))
    ELSE Scan(bytes, SkipScalar(bytes, p), open, TRUE)

\* After a comma: the next element of an array or member of an object at n.
ScanItem(bytes, open, n) ==
    Scan(bytes, IF open[Len(open)] = 91 THEN n ELSE SkipKey(bytes, n), open, FALSE)

\* A value of the innermost container has ended; t is the next byte that is
\* not whitespace.
ScanNext(bytes, open, t) ==
    IF At(bytes, t) = 44 THEN ScanItem(bytes, open, SkipWs(bytes, t + 1))
    ELSE IF \/ open[Len(open)] = 91 /\ At(bytes, t) = 93
            \/ open[Len(open)] = 123 /\ At(bytes, t) = 125
        THEN Scan(bytes, t + 1, SubSeq(open, 1, Len(open) - 1), TRUE)
    ELSE 0

Scan(bytes, p, open, ended) ==
    IF p = 0 THEN 0
    ELSE IF ~ended THEN ScanValue(bytes, p, open, SkipWs(bytes, p + 1))
    ELSE IF open = << >> THEN p
    ELSE ScanNext(bytes, open, SkipWs(bytes, p))

\* Any JSON value, as serde skips the value of a field the struct does not
\* have.
SkipValue(bytes, p) == Scan(bytes, p, << >>, FALSE)

\* The key of a member, as written between its quotes, names the field n:
\* n itself or its \u escape.
IsFieldN(name) ==
    \/ name = <<110>>
    \/ name \in {<<92, 117, 48, 48, 54, e>> : e \in {101, 69}}

\* The members of the object of a struct with the one field n, from the key
\* at p to the closing brace, which ends the input: the digits of n, the
\* empty sequence when the object does not decode.  Members with another
\* key are skipped; n must come once and be a u64.  `found` is what the
\* members before p gave.
RECURSIVE StructMembers(_, _, _)

\* The member has ended; `now` is what the members so far gave and t the
\* next byte that is not whitespace.
MemberNext(bytes, now, t) ==
    IF At(bytes, t) = 44 THEN StructMembers(bytes, SkipWs(bytes, t + 1), now)
    ELSE IF At(bytes, t) = 125 /\ t = Len(bytes) THEN now
    ELSE << >>

\* The member's value is bytes s to e - 1; isN says that its key names n.
MemberEnd(bytes, found, isN, s, e) ==
    IF s = 0 \/ e = 0 THEN << >>
    ELSE IF isN /\ (found # << >> \/ ~IsU64(SubSeq(bytes, s, e - 1))) THEN << >>
    ELSE MemberNext(bytes, IF isN THEN SubSeq(bytes, s, e - 1) ELSE found,
                    SkipWs(bytes, e))

\* The member's value starts at s.
MemberValue(bytes, found, isN, s) ==
    MemberEnd(bytes, found, isN, s,
              IF isN THEN SkipNumber(bytes, s) ELSE SkipValue(bytes, s))

\* The member's key is bytes p + 1 to q - 2, between its quotes.
MemberNamed(bytes, p, found, q) ==
    IF q = 0 THEN << >>
    ELSE MemberValue(bytes, found, IsFieldN(SubSeq(bytes, p + 1, q - 2)),
                     SkipColon(bytes, q))

StructMembers(bytes, p, found) ==
    IF At(bytes, p) # 34 THEN << >>
    ELSE MemberNamed(bytes, p, found, ParseStr(bytes, p + 1))

\* The sequence form [<number>] of the struct, its brackets taken off.
StructSeq(inner) == IF IsU64(inner) THEN inner ELSE << >>

\* The digits of the field n when the (trimmed) bytes are a struct with that
\* field, as an object or as the sequence [<number>] that a derived
\* Deserialize also reads; the empty sequence otherwise.
StructField(bytes) ==
    IF Len(bytes) < 2 THEN << >>
    ELSE IF bytes[1] = 91 /\ bytes[Len(bytes)] = 93
        THEN StructSeq(Trim(SubSeq(bytes, 2, Len(bytes) - 1)))
    ELSE IF bytes[1] = 123 THEN StructMembers(bytes, SkipWs(bytes, 2), << >>)
    ELSE << >>

\* The branch value with the digits StructField found, Err without them.
BranchOf(digits) ==
    IF IsNumber(digits)
    THEN [kind |-> "Some", v |-> [ty |-> "branch", n |-> NumberOf(digits)]]
    ELSE [kind |-> "Err", v |-> NoValue]

\* from_slice on input without whitespace around it.
FromJson(ty, json) ==
    IF json = NullBytes THEN [kind |-> "None", v |-> NoValue]
    ELSE IF ty = "leaf" /\ IsU64(json)
        THEN [kind |-> "Some", v |-> [ty |-> "leaf", n |-> NumberOf(json)]]
    ELSE IF ty = "branch" THEN BranchOf(StructField(json))
    ELSE [kind |-> "Err", v |-> NoValue]

\* from_slice::<Option<V>>(bytes) for V = ty: Ok(None) on null, whatever V
\* is, Ok(Some(v)) on the JSON of a V that is not null (a u64 for a leaf, the
\* struct for a branch), both with whitespace around them allowed, Err on
\* anything else (empty input included).
FromSlice(ty, bytes) == FromJson(ty, Trim(bytes))

\* ------------------------------------------------------------------ keys
\* leaf_key.as_slice(): the raw hash bytes.
LeafKeyBytes(h) == <<h>>
\* to_vec(branch_key): the JSON object of the BranchKey.
BranchKeyBytes(b) == ObjectOf(b)

LeafKeys == {LeafKeyBytes(h) : h \in 1..NumLeafKeys}
BranchKeys == {BranchKeyBytes(b) : b \in BranchIds}
Keys == LeafKeys \cup BranchKeys
NoKey == << >>

\* Byte strings an engine handed to with_db may already hold.
StoredBytes == {ToVec(v) : v \in Values} \cup {NullBytes}

\* --------------------------------------------------------------- results
Pending == [kind |-> "Pending", v |-> NoValue]
RetOk == [kind |-> "Ok", v |-> NoValue]
RetNone == [kind |-> "None", v |-> NoValue]
RetSome(v) == [kind |-> "Some", v |-> v]
\* Err(Error::Store("No lock obtained."))
ErrLock == [kind |-> "ErrLock", v |-> NoValue]
\* Err(Error::Store(e.to_string())) for an engine error e
ErrBackend == [kind |-> "ErrBackend", v |-> NoValue]
\* from_slice(..).unwrap() on an Err: the call unwinds, no result is returned
Panicked == [kind |-> "Panic", v |-> NoValue]

\* A mutation of the overlay as the caller issued it.
NoMut == [op |-> "none", v |-> NoValue]
PutMut(v) == [op |-> "put", v |-> v]
DeleteMut == [op |-> "delete", v |-> NoValue]

VARIABLES
    db,            \* engine contents: key -> Option<bytes>
    cache,         \* overlay contents: key -> Option<bytes>, Some(<<>>) a tombstone
    dbOwner,       \* thread holding the db guard, 0 when free
    cacheOwner,    \* thread holding the cache guard, 0 when free
    dbPoisoned,    \* the db mutex is poisoned
    cachePoisoned, \* the cache mutex is poisoned
    pc,            \* per thread: the statement it is about to run
    op,            \* per thread: the method it is running
    key,           \* per thread: serialized_key of the call in progress
    ty,            \* per thread: type parameter V of the call in progress
    val,           \* per thread: value argument of the put in progress
    done,          \* per thread: keys the commit loop has already visited
    ret,           \* per thread: the result the call is returning
    lastMut,       \* history: last put/delete of each key since the last call that emptied the overlay
    snap,          \* history: engine contents when the running commit took both guards
    calls          \* history: engine calls of the last iteration of the running commit's loop

vars == <<db, cache, dbOwner, cacheOwner, dbPoisoned, cachePoisoned,
          pc, op, key, ty, val, done, ret, lastMut, snap, calls>>

locks == <<dbOwner, cacheOwner, dbPoisoned, cachePoisoned>>
locals == <<op, key, ty, val, done>>
history == <<lastMut, snap, calls>>

Tombstone == Some(EmptyVec)
EmptyMap == [k \in Keys |-> None]

Init ==
    /\ db \in [Keys -> {None} \cup {Some(b) : b \in StoredBytes}]
    /\ cache = EmptyMap
    /\ dbOwner = 0
    /\ cacheOwner = 0
    /\ dbPoisoned = FALSE
    /\ cachePoisoned = FALSE
    /\ pc = [t \in Threads |-> "idle"]
    /\ op = [t \in Threads |-> "none"]
    /\ key = [t \in Threads |-> NoKey]
    /\ ty = [t \in Threads |-> "none"]
    /\ val = [t \in Threads |-> NoValue]
    /\ done = [t \in Threads |-> {}]
    /\ ret = [t \in Threads |-> Pending]
    /\ lastMut = [k \in Keys |-> NoMut]
    /\ snap = EmptyMap
    /\ calls = << >>

\* ------------------------------------------------------------- call/return
\* Thread t, idle so far, is inside `method` with these arguments.  A call
\* starts when it gets its first guard: until then it has done nothing.
Enter(t, method, k, typ, v) ==
    /\ pc[t] = "idle"
    /\ op' = [op EXCEPT ![t] = method]
    /\ key' = [key EXCEPT ![t] = k]
    /\ ty' = [ty EXCEPT ![t] = typ]
    /\ val' = [val EXCEPT ![t] = v]
    /\ UNCHANGED done

\* The method has its result; its guards are still alive until it exits.
Finish(t, r) ==
    /\ pc' = [pc EXCEPT ![t] = "ret"]
    /\ ret' = [ret EXCEPT ![t] = r]

Goto(t, label) ==
    /\ pc' = [pc EXCEPT ![t] = label]
    /\ UNCHANGED ret

\* The guard a call that holds both gives back first.  commit declares `db`
\* before `cache`, and locals are dropped in reverse order: cache, then db.
\* get holds `db` in the inner block of its None arm, which ends before the
\* function does: db, then cache.
FirstDropped(t) == IF op[t] = "commit" THEN "cache" ELSE "db"

\* Function exit, first part: the call gives back the guard it holds, or the
\* first of the two it holds; a guard dropped while the thread unwinds from a
\* panic poisons its mutex.  Other threads can run before the second guard
\* is dropped.
Drop(t) ==
    /\ pc[t] = "ret"
    /\ LET both == dbOwner = t /\ cacheOwner = t
           dropsDb == dbOwner = t /\ (both => FirstDropped(t) = "db")
           dropsCache == cacheOwner = t /\ (both => FirstDropped(t) = "cache")
       IN /\ dbOwner' = IF dropsDb THEN 0 ELSE dbOwner
          /\ cacheOwner' = IF dropsCache THEN 0 ELSE cacheOwner
          /\ dbPoisoned' = (dbPoisoned \/ (dropsDb /\ ret[t] = Panicked))
          /\ cachePoisoned' = (cachePoisoned \/ (dropsCache /\ ret[t] = Panicked))
          /\ pc' = [pc EXCEPT ![t] = IF both THEN "exit" ELSE "idle"]
          /\ ret' = [ret EXCEPT ![t] =
                       IF both /\ ret[t] = Panicked THEN Panicked ELSE Pending]
    /\ op' = [op EXCEPT ![t] = "none"]
    /\ key' = [key EXCEPT ![t] = NoKey]
    /\ ty' = [ty EXCEPT ![t] = "none"]
    /\ val' = [val EXCEPT ![t] = NoValue]
    /\ done' = [done EXCEPT ![t] = {}]
    /\ lastMut' = IF op[t] \in {"commit", "clear_cache"} /\ ret[t] = RetOk
                  THEN [k \in Keys |-> NoMut] ELSE lastMut
    /\ snap' = IF op[t] = "commit" THEN EmptyMap ELSE snap
    /\ calls' = IF op[t] = "commit" THEN << >> ELSE calls
    /\ UNCHANGED <<db, cache>>

\* Function exit, second part: the guard that is left is dropped.
DropLast(t) ==
    /\ pc[t] = "exit"
    /\ dbOwner' = IF dbOwner = t THEN 0 ELSE dbOwner
    /\ cacheOwner' = IF cacheOwner = t THEN 0 ELSE cacheOwner
    /\ dbPoisoned' = (dbPoisoned \/ (dbOwner = t /\ ret[t] = Panicked))
    /\ cachePoisoned' = (cachePoisoned \/ (cacheOwner = t /\ ret[t] = Panicked))
    /\ pc' = [pc EXCEPT ![t] = "idle"]
    /\ ret' = [ret EXCEPT ![t] = Pending]
    /\ UNCHANGED <<db, cache, locals, history>>

\* -------------------------------------------------------------------- get
\* What get returns for stored bytes: from_slice::<Option<V>>(..).unwrap().
Decoded(typ, bytes) ==
    LET d == FromSlice(typ, bytes) IN
    IF d.kind = "Err" THEN Panicked ELSE d

\* match cache.get(serialized_key): an empty vector means the value was
\* deleted, any other entry is decoded, no entry sends get to the engine.
Miss == [kind |-> "Miss", v |-> NoValue]
CacheLookup(map, k, typ) ==
    LET e == map[k] IN
    IF ~IsSome(e) THEN Miss
    ELSE IF Unwrap(e) # EmptyVec THEN Decoded(typ, Unwrap(e))
    ELSE RetNone

\* match db.get(serialized_key) when the engine answers
DbLookup(map, k, typ) ==
    LET e == map[k] IN
    IF ~IsSome(e) THEN RetNone ELSE Decoded(typ, Unwrap(e))

\* What get::<typ>(k) returns on these overlay and engine contents when it gets
\* its guards and the engine answers: the two matches of get, one after the
\* other.
GetResult(cmap, dmap, k, typ) ==
    LET r == CacheLookup(cmap, k, typ) IN
    IF r = Miss THEN DbLookup(dmap, k, typ) ELSE r

\* A get that gives the cache guard back before it turns to the engine.
GuardAfterMiss_Released(t) == 0

\* Holder of the cache guard once the lookup missed: the guard is the local
\* `cache` of get, which lives until get returns.
GuardAfterMiss(t) == t

\* get::<typ>(k): self.cache.lock() and cache.get(serialized_key).  lock()
\* blocks while another thread holds the guard and gives Err on a poisoned
\* mutex.  On a miss the cache guard stays alive.
get(t, k, typ) ==
    /\ Enter(t, "get", k, typ, NoValue)
    /\ cacheOwner = 0
    /\ LET r == CacheLookup(cache, k, typ) IN
       IF cachePoisoned THEN Finish(t, ErrLock) /\ cacheOwner' = t
       ELSE IF r = Miss THEN Goto(t, "get_lock_db") /\ cacheOwner' = GuardAfterMiss(t)
       ELSE Finish(t, r) /\ cacheOwner' = t
    /\ UNCHANGED <<db, cache, dbOwner, dbPoisoned, cachePoisoned, history>>

\* self.db.lock() and db.get(serialized_key) on an overlay miss.
get_db(t) ==
    /\ pc[t] = "get_lock_db"
    /\ dbOwner = 0
    /\ dbOwner' = t
    /\ \E fails \in BOOLEAN :
       IF dbPoisoned THEN Finish(t, ErrLock)
       ELSE IF fails THEN Finish(t, ErrBackend)
       ELSE Finish(t, DbLookup(db, key[t], ty[t]))
    /\ UNCHANGED <<db, cache, cacheOwner, dbPoisoned, cachePoisoned, locals, history>>

\* -------------------------------------------------------------------- put
\* HashMap::insert: the entry of k is set, whatever it was
Insert(map, k, bytes) == [map EXCEPT ![k] = Some(bytes)]

\* cache.insert(serialized_key.to_vec(), to_vec(value).unwrap())
PutEntry(map, k, v) == Insert(map, k, ToVec(v))

\* A put that goes on with the guard of a poisoned mutex.
put_IgnorePoison(t, k, v) ==
    /\ Enter(t, "put", k, v.ty, v)
    /\ cacheOwner = 0
    /\ cacheOwner' = t
    /\ cache' = PutEntry(cache, k, v)
    /\ lastMut' = [lastMut EXCEPT ![k] = PutMut(v)]
    /\ Finish(t, RetOk)
    /\ UNCHANGED <<db, dbOwner, dbPoisoned, cachePoisoned, snap, calls>>

\* A put that also writes the engine.
put_WriteThrough(t, k, v) ==
    /\ Enter(t, "put", k, v.ty, v)
    /\ cacheOwner = 0
    /\ cacheOwner' = t
    /\ IF cachePoisoned
       THEN /\ Finish(t, ErrLock)
            /\ UNCHANGED <<db, cache, lastMut>>
       ELSE /\ cache' = PutEntry(cache, k, v)
            /\ db' = [db EXCEPT ![k] = Some(ToVec(v))]
            /\ lastMut' = [lastMut EXCEPT ![k] = PutMut(v)]
            /\ Finish(t, RetOk)
    /\ UNCHANGED <<dbOwner, dbPoisoned, cachePoisoned, snap, calls>>

\* A put that asks for the db guard as well.
put_TakesDbGuard(t, k, v) ==
    /\ Enter(t, "put", k, v.ty, v)
    /\ cacheOwner = 0
    /\ dbOwner = 0
    /\ cacheOwner' = t
    /\ dbOwner' = t
    /\ IF cachePoisoned
       THEN /\ Finish(t, ErrLock)
            /\ UNCHANGED <<cache, lastMut>>
       ELSE /\ cache' = PutEntry(cache, k, v)
            /\ lastMut' = [lastMut EXCEPT ![k] = PutMut(v)]
            /\ Finish(t, RetOk)
    /\ UNCHANGED <<db, dbPoisoned, cachePoisoned, snap, calls>>

\* put(k, v): self.cache.lock(), the insert, Ok(())
put(t, k, v) ==
    /\ Enter(t, "put", k, v.ty, v)
    /\ cacheOwner = 0
    /\ cacheOwner' = t
    /\ IF cachePoisoned
       THEN /\ Finish(t, ErrLock)
            /\ UNCHANGED <<cache, lastMut>>
       ELSE /\ cache' = PutEntry(cache, k, v)
            /\ lastMut' = [lastMut EXCEPT ![k] = PutMut(v)]
            /\ Finish(t, RetOk)
    /\ UNCHANGED <<db, dbOwner, dbPoisoned, cachePoisoned, snap, calls>>

\* ----------------------------------------------------------------- delete
\* HashMap::remove: k has no entry afterwards
Remove(map, k) == [map EXCEPT ![k] = None]

\* A delete that only drops the overlay entry and leaves no marker.
DeleteEntry_NoMarker(map, k) == Remove(map, k)

\* A delete that leaves a value put earlier in place.
DeleteEntry_KeepValue(map, k) ==
    IF IsSome(map[k]) THEN map ELSE Insert(map, k, EmptyVec)

\* A delete that takes the marker back when the key already has one.
DeleteEntry_Toggle(map, k) ==
    IF map[k] = Tombstone THEN Remove(map, k) ELSE Insert(Remove(map, k), k, EmptyVec)

\* cache.remove(key); cache.insert(key, vec![])
DeleteEntry(map, k) == Insert(Remove(map, k), k, EmptyVec)

\* delete(k): self.cache.lock(), the remove and the insert, Ok(())
delete(t, k) ==
    /\ Enter(t, "delete", k, "none", NoValue)
    /\ cacheOwner = 0
    /\ cacheOwner' = t
    /\ IF cachePoisoned
       THEN /\ Finish(t, ErrLock)
            /\ UNCHANGED <<cache, lastMut>>
       ELSE /\ cache' = DeleteEntry(cache, k)
            /\ lastMut' = [lastMut EXCEPT ![k] = DeleteMut]
            /\ Finish(t, RetOk)
    /\ UNCHANGED <<db, dbOwner, dbPoisoned, cachePoisoned, snap, calls>>

\* ----------------------------------------------------------------- commit
\* commit(): self.db.lock()
commit(t) ==
    /\ Enter(t, "commit", NoKey, "none", NoValue)
    /\ dbOwner = 0
    /\ dbOwner' = t
    /\ IF dbPoisoned THEN Finish(t, ErrLock) ELSE Goto(t, "commit_lock_cache")
    /\ UNCHANGED <<db, cache, cacheOwner, dbPoisoned, cachePoisoned, history>>

\* A commit that runs its loop without the cache guard.
commit_lock_cache_NoGuard(t) ==
    /\ pc[t] = "commit_lock_cache"
    /\ cacheOwner = 0
    /\ IF cachePoisoned
       THEN /\ Finish(t, ErrLock)
            /\ UNCHANGED <<snap, calls>>
       ELSE /\ Goto(t, "commit_loop")
            /\ snap' = db
            /\ UNCHANGED calls
    /\ UNCHANGED <<db, cache, dbOwner, cacheOwner, dbPoisoned, cachePoisoned, locals, lastMut>>

\* self.cache.lock(), the db guard held
commit_lock_cache(t) ==
    /\ pc[t] = "commit_lock_cache"
    /\ cacheOwner = 0
    /\ cacheOwner' = t
    /\ IF cachePoisoned
       THEN /\ Finish(t, ErrLock)
            /\ UNCHANGED <<snap, calls>>
       ELSE /\ Goto(t, "commit_loop")
            /\ snap' = db
            /\ UNCHANGED calls
    /\ UNCHANGED <<db, cache, dbOwner, dbPoisoned, cachePoisoned, locals, lastMut>>

\* A clear that leaves the deletion markers in the map.
Clear_KeepMarkers(map) ==
    [k \in DOMAIN map |-> IF map[k] = Tombstone THEN map[k] ELSE None]

\* HashMap::clear
Clear(map) == [k \in DOMAIN map |-> None]

\* Keys of the overlay the loop `for (key, value) in cache.iter()` has not
\* visited yet; a HashMap yields them in an arbitrary order.
Unvisited(t) == {k \in Keys : IsSome(cache[k])} \ done[t]

\* A commit that undoes its writes when an engine call fails.
CommitFail_Rollback(t, made) ==
    /\ Finish(t, ErrBackend)
    /\ db' = snap
    /\ calls' = made
    /\ UNCHANGED locals

\* return Err(Error::Store(e.to_string())) out of the loop; the engine call
\* that failed, the last of the calls `made`, has changed nothing.
CommitFail(t, made) ==
    /\ Finish(t, ErrBackend)
    /\ calls' = made
    /\ UNCHANGED <<db, locals>>

\* The engine calls `made` succeeded; the loop goes on to the next entry.
CommitVisit(t, k, newdb, made) ==
    /\ db' = newdb
    /\ calls' = made
    /\ done' = [done EXCEPT ![t] = done[t] \cup {k}]
    /\ UNCHANGED <<pc, op, key, ty, val, ret>>

\* A call of the engine: db.put(key, ..), db.get(key) or db.delete(key).
DbCall(name, k) == [call |-> name, key |-> k]

\* An engine put that keeps the entry a key already has.
DbPut_KeepExisting(map, k, bytes) ==
    IF IsSome(map[k]) THEN map ELSE [map EXCEPT ![k] = Some(bytes)]

\* The engine's put and delete when they succeed.
DbPut(map, k, bytes) == [map EXCEPT ![k] = Some(bytes)]

\* A commit that writes the empty marker through instead of deleting.
DbDelete_WriteMarker(map, k) == [map EXCEPT ![k] = Some(EmptyVec)]

DbDelete(map, k) == [map EXCEPT ![k] = None]

\* A commit that passes the markers without touching the engine.
commit_entry_SkipMarkers(t) ==
    /\ pc[t] = "commit_loop"
    /\ \E k \in Unvisited(t) :
       LET value == Unwrap(cache[k]) IN
       IF value # EmptyVec
       THEN \E putFails \in BOOLEAN :
               IF putFails THEN CommitFail(t, <<DbCall("put", k)>>)
               ELSE CommitVisit(t, k, DbPut(db, k, value), <<DbCall("put", k)>>)
       ELSE CommitVisit(t, k, db, << >>)
    /\ UNCHANGED <<cache, locks, lastMut, snap>>

\* A commit that puts every entry, the empty markers too.
commit_entry_PutsMarkers(t) ==
    /\ pc[t] = "commit_loop"
    /\ \E k \in Unvisited(t) :
       \E putFails \in BOOLEAN :
          IF putFails THEN CommitFail(t, <<DbCall("put", k)>>)
          ELSE CommitVisit(t, k, DbPut(db, k, Unwrap(cache[k])), <<DbCall("put", k)>>)
    /\ UNCHANGED <<cache, locks, lastMut, snap>>

\* A commit that deletes a marked key without reading it first.
commit_entry_DeleteUnread(t) ==
    /\ pc[t] = "commit_loop"
    /\ \E k \in Unvisited(t) :
       LET value == Unwrap(cache[k]) IN
       IF value # EmptyVec
       THEN \E putFails \in BOOLEAN :
               IF putFails THEN CommitFail(t, <<DbCall("put", k)>>)
               ELSE CommitVisit(t, k, DbPut(db, k, value), <<DbCall("put", k)>>)
       ELSE \E deleteFails \in BOOLEAN :
               IF deleteFails THEN CommitFail(t, <<DbCall("delete", k)>>)
               ELSE CommitVisit(t, k, DbDelete(db, k), <<DbCall("delete", k)>>)
    /\ UNCHANGED <<cache, locks, lastMut, snap>>

\* One iteration of the loop body, both guards held.
commit_entry(t) ==
    /\ pc[t] = "commit_loop"
    /\ \E k \in Unvisited(t) :
       LET value == Unwrap(cache[k]) IN
       IF value # EmptyVec
       THEN \* db.put(key, value)
            \E putFails \in BOOLEAN :
               IF putFails THEN CommitFail(t, <<DbCall("put", k)>>)
               ELSE CommitVisit(t, k, DbPut(db, k, value), <<DbCall("put", k)>>)
       ELSE \* db.get(key), then db.delete(key) if the key is there
            \E getFails \in BOOLEAN, deleteFails \in BOOLEAN :
               IF getFails THEN CommitFail(t, <<DbCall("get", k)>>)
               ELSE IF IsSome(db[k])
               THEN IF deleteFails
                    THEN CommitFail(t, <<DbCall("get", k), DbCall("delete", k)>>)
                    ELSE CommitVisit(t, k, DbDelete(db, k),
                                     <<DbCall("get", k), DbCall("delete", k)>>)
               ELSE CommitVisit(t, k, db, <<DbCall("get", k)>>)
    /\ UNCHANGED <<cache, locks, lastMut, snap>>

\* A commit that clears the overlay before its loop has visited every entry.
commit_clear_Early(t) ==
    /\ pc[t] = "commit_loop"
    /\ cache' = Clear(cache)
    /\ Finish(t, RetOk)
    /\ UNCHANGED <<db, locks, locals, history>>

\* cache.clear(); Ok(()) once the loop has visited every entry.
commit_clear(t) ==
    /\ pc[t] = "commit_loop"
    /\ Unvisited(t) = {}
    /\ cache' = Clear(cache)
    /\ Finish(t, RetOk)
    /\ UNCHANGED <<db, locks, locals, history>>

\* ------------------------------------------------------------ clear_cache
\* clear_cache(): self.cache.lock(), Ok(cache.clear())
clear_cache(t) ==
    /\ Enter(t, "clear_cache", NoKey, "none", NoValue)
    /\ cacheOwner = 0
    /\ cacheOwner' = t
    /\ IF cachePoisoned
       THEN /\ Finish(t, ErrLock)
            /\ UNCHANGED cache
       ELSE /\ cache' = Clear(cache)
            /\ Finish(t, RetOk)
    /\ UNCHANGED <<db, dbOwner, dbPoisoned, cachePoisoned, history>>

\* ------------------------------------ StoreReadOps / StoreWriteOps
\* The key is encoded, then get, put or delete runs.
get_branch(t) == \E b \in BranchIds : get(t, BranchKeyBytes(b), "branch")

get_leaf(t) == \E h \in 1..NumLeafKeys, typ \in Types : get(t, LeafKeyBytes(h), typ)

insert_branch(t) ==
    \E b \in BranchIds, v \in BranchValues : put(t, BranchKeyBytes(b), v)

insert_leaf(t) ==
    \E h \in 1..NumLeafKeys, v \in Values : put(t, LeafKeyBytes(h), v)

remove_branch(t) == \E b \in BranchIds : delete(t, BranchKeyBytes(b))

remove_leaf(t) == \E h \in 1..NumLeafKeys : delete(t, LeafKeyBytes(h))

\* ------------------------------------------------------------------ system
Next ==
    \E t \in Threads :
        \/ \E k \in Keys, typ \in Types : get(t, k, typ)
        \/ get_db(t)
        \/ \E k \in Keys, v \in Values : put(t, k, v)
        \/ \E k \in Keys : delete(t, k)
        \/ commit(t)
        \/ commit_lock_cache(t)
        \/ commit_entry(t)
        \/ commit_clear(t)
        \/ clear_cache(t)
        \/ get_branch(t)
        \/ get_leaf(t)
        \/ insert_branch(t)
        \/ insert_leaf(t)
        \/ remove_branch(t)
        \/ remove_leaf(t)
        \/ Drop(t)
        \/ DropLast(t)

Spec == Init /\ [][Next]_vars

TypeOK ==
    /\ dbOwner \in 0..NumThreads
    /\ cacheOwner \in 0..NumThreads
    /\ \A k \in Keys : Len(db[k]) <= 1 /\ Len(cache[k]) <= 1
    /\ Len(calls) <= 2

\* ================================================================ properties
\* A call of `method` by t has its result and has not yet dropped its guards.
Returning(t, method) == pc[t] = "ret" /\ op[t] = method

\* The overlay entry a mutation asks for.
EntryOf(m) ==
    IF m.op = "put" THEN Some(ToVec(m.v))
    ELSE IF m.op = "delete" THEN Tombstone
    ELSE None

\* The engine entry a committed mutation asks for, given the entry before it.
CommittedOf(m, before) ==
    IF m.op = "put" THEN Some(ToVec(m.v))
    ELSE IF m.op = "delete" THEN None
    ELSE before

\* C1: a get(k) that runs while the last mutation of k since the overlay was
\* last emptied (by a successful commit or clear_cache) is a delete finds the
\* tombstone and returns Ok(None) without taking the db guard, whatever the
\* engine holds for k; on a poisoned cache mutex it returns the lock error.
C1_TombstoneReadsAbsent ==
    \A t \in Threads :
        (Returning(t, "get") /\ lastMut[key[t]] = DeleteMut) =>
            /\ cache[key[t]] = Tombstone
            /\ dbOwner # t
            /\ ret[t] = IF cachePoisoned THEN ErrLock ELSE RetNone

C1_Witness ==
    \E t \in Threads :
        /\ Returning(t, "get")
        /\ lastMut[key[t]] = DeleteMut
        /\ ret[t] = RetNone
        /\ IsSome(db[key[t]])
        /\ FromSlice(ty[t], Unwrap(db[key[t]])).kind = "Some"

\* C2: a get::<V>(k) that runs while the last mutation of k is put::<V>(k, v)
\* returns Ok(Some(v)), for every value v of every type V, from the overlay
\* without taking the db guard, whatever the engine holds for k (the lock
\* error on a poisoned cache mutex), and no step of a put or a get changes
\* the engine.
C2_PutThenGet ==
    /\ [](\A t \in Threads :
            (/\ Returning(t, "get")
             /\ lastMut[key[t]].op = "put"
             /\ lastMut[key[t]].v.ty = ty[t]) =>
                /\ dbOwner # t
                /\ ret[t] = IF cachePoisoned THEN ErrLock
                             ELSE RetSome(lastMut[key[t]].v))
    /\ [][\A t \in Threads :
            (op'[t] \in {"put", "get"} /\ pc'[t] # pc[t]) => db' = db]_vars

\* C3: when a commit returns Ok the overlay is empty and the engine holds, for
\* every key, what the last mutation of the key since the overlay was last
\* emptied asks for: the bytes of the last put, no entry after a delete, and
\* the entry it had when the commit started for a key not mutated.
C3_CommitReflectsMutations ==
    \A t \in Threads :
        (Returning(t, "commit") /\ ret[t] = RetOk) =>
            /\ cache = EmptyMap
            /\ \A k \in Keys : db[k] = CommittedOf(lastMut[k], snap[k])

C3_Witness ==
    \E t \in Threads :
        /\ Returning(t, "commit")
        /\ ret[t] = RetOk
        /\ \E k1, k2 \in Keys :
            /\ lastMut[k1].op = "put"
            /\ snap[k1] # db[k1]
            /\ lastMut[k2].op = "delete"
            /\ IsSome(snap[k2])
            /\ ~IsSome(db[k2])

\* C4: when an engine call fails in commit, commit returns the engine error
\* at once: the entries the loop had visited stay applied to the engine, the
\* entries it had not visited are as they were when the commit started, and
\* the overlay still holds every mutation.
C4_CommitStopsAtFirstFailure ==
    \A t \in Threads :
        (Returning(t, "commit") /\ ret[t] = ErrBackend) =>
            /\ \A k \in Keys : cache[k] = EntryOf(lastMut[k])
            /\ \A k \in done[t] : db[k] = CommittedOf(lastMut[k], snap[k])
            /\ \A k \in Keys \ done[t] : db[k] = snap[k]
            /\ Unvisited(t) # {}

C4_Witness ==
    \E t \in Threads :
        /\ Returning(t, "commit")
        /\ ret[t] = ErrBackend
        /\ \E k \in done[t] : db[k] # snap[k]
        /\ \E k \in Unvisited(t) : db[k] # CommittedOf(lastMut[k], snap[k])

\* C5: a get that missed the overlay and a concurrent commit never wait for
\* each other: no state has a get that holds the cache guard and waits for the
\* db guard while a commit holds the db guard and waits for the cache guard
\* (neither guard is given up before its holder returns, so neither call
\* would ever complete).
C5_GetAndCommitNeverBlockEachOther ==
    ~ \E t, u \in Threads :
        /\ pc[t] = "get_lock_db"
        /\ cacheOwner = t
        /\ dbOwner = u
        /\ pc[u] = "commit_lock_cache"

\* C6 as stated: a get that has taken the db guard after an overlay miss has
\* released the cache guard.
C6_GuardReleasedBeforeBackend ==
    \A t \in Threads : (op[t] = "get" /\ dbOwner = t) => cacheOwner # t

\* C6 as amended: from its overlay miss to its return a get holds the cache
\* guard, also while it waits for and holds the db guard; so no step changes
\* the overlay or the engine between the miss and the engine lookup, the
\* overlay has no entry and no pending mutation for its key when it reads the
\* engine, and what it returns is the engine's current answer (or an error).
C6_MissKeepsCacheGuard ==
    /\ [](\A t \in Threads :
            (op[t] = "get" /\ (pc[t] = "get_lock_db" \/ dbOwner = t)) =>
                /\ cacheOwner = t
                /\ cache[key[t]] = None
                /\ lastMut[key[t]] = NoMut
                /\ pc[t] = "ret" =>
                       ret[t] \in {DbLookup(db, key[t], ty[t]), ErrBackend, ErrLock})
    /\ [][(\E t \in Threads : op[t] = "get" /\ pc[t] = "get_lock_db") =>
              (cache' = cache /\ lastMut' = lastMut /\ db' = db)]_vars

C6_Witness ==
    \E t \in Threads :
        /\ Returning(t, "get")
        /\ dbOwner = t
        /\ cacheOwner = t
        /\ ret[t].kind = "Some"

\* C7: no get ends by unwinding: stored bytes that do not decode give the
\* caller an error result, and no mutex is poisoned by it.
C7_DecodeFailureIsAnError ==
    /\ \A t \in Threads : pc[t] = "ret" => ret[t] # Panicked
    /\ ~cachePoisoned
    /\ ~dbPoisoned

\* C8: once a mutex is poisoned no step changes the overlay or the engine and
\* every call that gets its result from then on gets the lock error.  The db
\* mutex is poisoned only by a get that unwinds with both guards: as long as
\* the cache mutex is not yet poisoned too, that get still holds the cache
\* guard, so the calls that lock only the cache wait and then fail as well.
C8_PoisonStopsTheStore ==
    [][/\ (cachePoisoned \/ dbPoisoned) =>
              /\ cache' = cache
              /\ db' = db
              /\ \A t \in Threads :
                     (pc'[t] = "ret" /\ pc[t] # "ret") => ret'[t] = ErrLock
       /\ (dbPoisoned' /\ ~cachePoisoned') =>
              \E t \in Threads :
                  /\ pc'[t] = "exit"
                  /\ cacheOwner' = t
                  /\ ret'[t] = Panicked
       /\ (cachePoisoned' \/ dbPoisoned') =>
              \A t \in Threads : pc'[t] = "ret" => ret'[t] = ErrLock]_vars

C8_Witness ==
    /\ cachePoisoned
    /\ \E t \in Threads :
        /\ Returning(t, "commit")
        /\ ret[t] = ErrLock
        /\ \E k \in Keys : IsSome(cache[k])

\* C9: the engine changes only in a step of a commit that holds both guards;
\* steps of get, put, delete and clear_cache (and of the branch and leaf
\* operations, which run them) leave it as it is.
C9_BackendChangesOnlyInCommit ==
    [][db' # db =>
          \E t \in Threads :
              /\ op[t] = "commit"
              /\ pc[t] = "commit_loop"
              /\ dbOwner = t
              /\ cacheOwner = t
              /\ done'[t] # done[t]]_vars

C9_Witness ==
    \E t \in Threads :
        /\ Returning(t, "delete")
        /\ ret[t] = RetOk
        /\ cache[key[t]] = Tombstone
        /\ IsSome(db[key[t]])
        /\ \E k \in Keys : lastMut[k].op = "put" /\ db[k] # cache[k]

\* C10: when clear_cache returns Ok the overlay has no entry, the step left
\* the engine as it was, and a get of a key not mutated since the overlay was
\* emptied is answered from the engine's entry for the key.
C10_ClearCacheDiscardsOverlay ==
    /\ [](\A t \in Threads :
            /\ (Returning(t, "clear_cache") /\ ret[t] = RetOk) => cache = EmptyMap
            /\ (Returning(t, "get") /\ lastMut[key[t]] = NoMut) =>
                   /\ cache[key[t]] = None
                   /\ ret[t] \in {DbLookup(db, key[t], ty[t]), ErrBackend, ErrLock}
                   /\ ret[t] = ErrLock => (cachePoisoned \/ dbPoisoned))
    /\ [][\A t \in Threads :
            (pc[t] = "idle" /\ op'[t] = "clear_cache") => db' = db]_vars

C10_Witness ==
    \E t \in Threads :
        /\ Returning(t, "clear_cache")
        /\ ret[t] = RetOk
        /\ cache = EmptyMap
        /\ \E k1, k2 \in Keys :
            /\ lastMut[k1].op = "put"
            /\ lastMut[k2].op = "delete"
            /\ IsSome(db[k2])
            /\ db[k1] # EntryOf(lastMut[k1])

\* C11: the engine never holds an empty value: the loop of commit puts only
\* entries that are not empty and turns an empty marker into the removal of
\* the key, so whatever put, delete, commit (also one that fails) and
\* clear_cache do, a key deleted and committed has no entry in the engine.
C11_NoTombstoneInBackend ==
    /\ \A k \in Keys : db[k] # Tombstone
    /\ \A t \in Threads : \A k \in done[t] :
           cache[k] = Tombstone => db[k] = None

C11_Witness ==
    \E t \in Threads :
        /\ pc[t] = "commit_loop"
        /\ \E k \in done[t] :
            /\ cache[k] = Tombstone
            /\ IsSome(snap[k])
            /\ db[k] = None

\* C12: from its first engine call to its exit (after cache.clear(), or with
\* the engine's error) a commit holds the db guard and the cache guard; while
\* it is in its loop every other thread is outside any call and stays there,
\* so no get, put, delete, clear_cache or other commit acts in between; and a
\* step of any other method leaves the engine as it is.
C12_CommitHoldsBothGuards ==
    /\ [](\A t \in Threads :
            (\/ pc[t] = "commit_loop"
             \/ (Returning(t, "commit") /\ ret[t] \in {RetOk, ErrBackend})) =>
                /\ dbOwner = t
                /\ cacheOwner = t
                /\ \A u \in Threads \ {t} : pc[u] = "idle")
    /\ [][/\ \A t \in Threads :
                pc[t] = "commit_loop" => \A u \in Threads \ {t} : pc'[u] = "idle"
          /\ \A t \in Threads :
                (pc'[t] # pc[t] /\ op[t] # "commit" /\ op'[t] # "commit") => db' = db]_vars

C12_Witness ==
    \E t \in Threads :
        /\ pc[t] = "commit_loop"
        /\ done[t] # {}
        /\ Unvisited(t) # {}
        /\ db # snap

\* C13: put and delete take the cache guard and nothing else: a thread
\* outside any call can run either of them to its result as soon as the
\* cache guard is free, whoever holds the db guard and whether or not the db
\* mutex is poisoned; the call has its result in that one step, never holds
\* the db guard and leaves the engine and the db mutex as they are.
C13_MutationsTakeOnlyCacheGuard ==
    /\ [](\A t \in Threads :
            /\ (pc[t] = "idle" /\ cacheOwner = 0) =>
                   /\ \A k \in Keys, v \in Values : ENABLED put(t, k, v)
                   /\ \A k \in Keys : ENABLED delete(t, k)
            /\ op[t] \in {"put", "delete"} =>
                   /\ pc[t] = "ret"
                   /\ cacheOwner = t
                   /\ dbOwner # t)
    /\ [][\A t \in Threads :
            (pc[t] = "idle" /\ op'[t] \in {"put", "delete"}) =>
                /\ pc'[t] = "ret"
                /\ db' = db
                /\ dbOwner' = dbOwner
                /\ dbPoisoned' = dbPoisoned]_vars

C13_Witness ==
    \E t, u \in Threads :
        /\ Returning(t, "delete")
        /\ ret[t] = RetOk
        /\ dbOwner = u
        /\ pc[u] = "commit_lock_cache"

\* C14: put and delete are idempotent on the overlay: for the overlay of
\* every reachable state, every key k and every value v, a second put(k, v)
\* leaves the map the first one made, and a second delete(k) leaves the map
\* the first one made; and a put or delete that runs when the key's entry is
\* already what it writes leaves the overlay as it is.
C14_MutationsIdempotent ==
    /\ [](/\ \A k \in Keys, v \in Values :
                PutEntry(PutEntry(cache, k, v), k, v) = PutEntry(cache, k, v)
          /\ \A k \in Keys :
                DeleteEntry(DeleteEntry(cache, k), k) = DeleteEntry(cache, k))
    /\ [][\A t \in Threads :
            /\ (/\ pc[t] = "idle"
                /\ op'[t] = "put"
                /\ ret'[t] = RetOk
                /\ lastMut[key'[t]] = PutMut(val'[t])) => cache' = cache
            /\ (/\ pc[t] = "idle"
                /\ op'[t] = "delete"
                /\ ret'[t] = RetOk
                /\ lastMut[key'[t]] = DeleteMut) => cache' = cache]_vars

C14_Witness ==
    \E k1, k2 \in Keys, v \in Values :
        /\ cache[k1] = Tombstone
        /\ PutEntry(cache, k1, v) # cache
        /\ PutEntry(PutEntry(cache, k1, v), k1, v) = PutEntry(cache, k1, v)
        /\ IsSome(cache[k2])
        /\ cache[k2] # Tombstone
        /\ DeleteEntry(cache, k2) # cache
        /\ DeleteEntry(DeleteEntry(cache, k2), k2) = DeleteEntry(cache, k2)

\* C15: a commit that finds the overlay empty (no key mutated since it was
\* last emptied) returns Ok(()) and never an error, and leaves the overlay
\* empty.
C15_EmptyCommitNeverErrors ==
    \A t \in Threads :
        (Returning(t, "commit") /\ \A k \in Keys : lastMut[k] = NoMut) =>
            /\ ret[t] = RetOk
            /\ cache = EmptyMap

\* C16, as stated: a commit whose overlay holds nothing but markers for keys
\* the engine did not have (delete(k) of a key absent from both, then
\* commit) issues no engine delete, produces no engine error, leaves the
\* engine unchanged and empties the overlay.
C16_DeleteOfAbsentKeyNeverErrors ==
    \A t \in Threads :
        (/\ Returning(t, "commit")
         /\ ret[t] # ErrLock
         /\ \E k \in Keys : lastMut[k] = DeleteMut
         /\ \A k \in Keys : \/ lastMut[k] = NoMut
                             \/ (lastMut[k] = DeleteMut /\ snap[k] = None)) =>
            /\ ret[t] = RetOk
            /\ cache = EmptyMap
            /\ db = snap
            /\ \A i \in DOMAIN calls : calls[i].call # "delete"

\* C16: for a marker the loop of commit first reads the key from the engine
\* and deletes it only if the engine has it.  Every iteration that takes a
\* marker whose key the engine lacks makes the one engine call db.get(key),
\* no delete, and leaves the engine as it is; it passes the entry unless
\* that read itself fails, and the loop can always get past the entry.  So a
\* commit of nothing but deletes of keys absent from overlay and engine
\* leaves the engine unchanged, returns no error but the one of a failed
\* read, and when it returns Ok has emptied the overlay.
C16_DeleteOfAbsentKeyCommits ==
    /\ [](\A t \in Threads :
            /\ pc[t] = "commit_loop" =>
                   \A k \in Unvisited(t) :
                       (cache[k] = Tombstone /\ db[k] = None) =>
                           ENABLED (/\ commit_entry(t)
                                    /\ done'[t] = done[t] \cup {k}
                                    /\ db' = db)
            /\ (Returning(t, "commit") /\ ret[t] = RetOk) =>
                   /\ cache = EmptyMap
                   /\ \A k \in Keys :
                          (lastMut[k] = DeleteMut /\ snap[k] = None) => db[k] = None
            /\ (/\ Returning(t, "commit")
                /\ ret[t] # ErrLock
                /\ \A k \in Keys : \/ lastMut[k] = NoMut
                                    \/ (lastMut[k] = DeleteMut /\ snap[k] = None)) =>
                   /\ db = snap
                   /\ ret[t] = ErrBackend =>
                          \E k \in Keys : calls = <<DbCall("get", k)>>)
    /\ [][\A t \in Threads :
            (/\ pc[t] = "commit_loop"
             /\ done'[t] # done[t] \/ ret'[t] = ErrBackend) =>
                /\ Len(calls') >= 1
                /\ cache[calls'[1].key] = Tombstone =>
                       /\ calls'[1].call = "get"
                       /\ Len(calls') = 2 =>
                              /\ IsSome(db[calls'[1].key])
                              /\ calls'[2] = DbCall("delete", calls'[1].key)
                       /\ db[calls'[1].key] = None =>
                              /\ Len(calls') = 1
                              /\ db' = db
                              /\ \/ calls'[1].key \in done'[t]
                                 \/ ret'[t] = ErrBackend]_vars

C16_Witness ==
    \E t \in Threads :
        /\ Returning(t, "commit")
        /\ ret[t] = RetOk
        /\ cache = EmptyMap
        /\ \E k \in Keys : calls = <<DbCall("get", k)>>
        /\ \A k \in Keys :
            /\ lastMut[k] = DeleteMut
            /\ snap[k] = None
            /\ db[k] = None

\* C17: the overlay is last-writer-wins per key: as long as no commit or
\* clear_cache has emptied it since, it holds for every key exactly what the
\* last put or delete of that key asks for (the bytes of the value of the last
\* put, the marker after a delete) and no entry for a key not mutated; a put
\* or delete changes the entry of its own key only.
C17_LastWriterWins ==
    /\ []((\A t \in Threads :
               ~(pc[t] = "ret" /\ op[t] \in {"commit", "clear_cache"} /\ ret[t] = RetOk)) =>
           \A k \in Keys : cache[k] = EntryOf(lastMut[k]))
    /\ [][\A t \in Threads :
            (pc[t] = "idle" /\ op'[t] \in {"put", "delete"}) =>
                \A k \in Keys \ {key'[t]} : cache'[k] = cache[k]]_vars

C17_Witness ==
    /\ \A t \in Threads : pc[t] = "idle"
    /\ \E k1, k2 \in Keys :
        /\ lastMut[k1] = DeleteMut
        /\ cache[k1] = Tombstone
        /\ lastMut[k2].op = "put"
        /\ cache[k2] = Some(ToVec(lastMut[k2].v))
        /\ db[k2] # cache[k2]

\* The overlay the mutations recorded in lastMut make.
OverlayOf(muts) == [k \in Keys |-> EntryOf(muts[k])]

\* C18: a commit does not change what reads return.  For every key and
\* every type, what get returns (its guards taken, the engine answering) is
\* the same after every step of the commit loop and after cache.clear() as
\* before it; so when a commit returns, with Ok or with the engine's error
\* part-way, get returns for every key what it returned on the overlay and
\* the engine the commit started from.
C18_CommitPreservesReads ==
    /\ [](\A t \in Threads :
            /\ (Returning(t, "commit") /\ ret[t] \in {RetOk, ErrBackend}) =>
                   \A k \in Keys, typ \in Types :
                       GetResult(cache, db, k, typ) =
                           GetResult(OverlayOf(lastMut), snap, k, typ)
            /\ Returning(t, "get") =>
                   ret[t] \in {GetResult(cache, db, key[t], ty[t]), ErrBackend, ErrLock})
    /\ [][(\E t \in Threads : pc[t] = "commit_loop") =>
              \A k \in Keys, typ \in Types :
                  GetResult(cache', db', k, typ) = GetResult(cache, db, k, typ)]_vars

C18_Witness ==
    \E t \in Threads :
        /\ Returning(t, "commit")
        /\ ret[t] = RetOk
        /\ \E k1, k2 \in Keys, typ \in Types :
            /\ lastMut[k1] = DeleteMut
            /\ GetResult(EmptyMap, snap, k1, typ).kind = "Some"
            /\ GetResult(cache, db, k1, typ) = RetNone
            /\ lastMut[k2].op = "put"
            /\ GetResult(EmptyMap, snap, k2, lastMut[k2].v.ty) # RetSome(lastMut[k2].v)
            /\ GetResult(cache, db, k2, lastMut[k2].v.ty) = RetSome(lastMut[k2].v)

\* C19: no acknowledged mutation is lost.  The entry of a put or delete that
\* returned Ok stays in the overlay under every interleaving; a step takes it
\* away or changes it only if it is a later put or delete of the same key, a
\* clear_cache, or the cache.clear() of a commit whose loop has visited the
\* key and left in the engine what the mutation asks for.
C19_NoAcknowledgedMutationLost ==
    /\ [](\A k \in Keys :
            lastMut[k] # NoMut =>
                \/ cache[k] = EntryOf(lastMut[k])
                \/ \E t \in Threads :
                      /\ Returning(t, "clear_cache")
                      /\ ret[t] = RetOk
                \/ \E t \in Threads :
                      /\ Returning(t, "commit")
                      /\ ret[t] = RetOk
                      /\ db[k] = CommittedOf(lastMut[k], db[k]))
    /\ [][\A k \in Keys :
            (lastMut[k] # NoMut /\ cache'[k] # cache[k]) =>
                \/ \E t \in Threads :
                      /\ pc[t] = "idle"
                      /\ op'[t] \in {"put", "delete"}
                      /\ key'[t] = k
                      /\ cache'[k] = EntryOf(lastMut'[k])
                \/ \E t \in Threads :
                      /\ pc[t] = "idle"
                      /\ op'[t] = "clear_cache"
                \/ \E t \in Threads :
                      /\ pc[t] = "commit_loop"
                      /\ ret'[t] = RetOk
                      /\ k \in done[t]
                      /\ db[k] = CommittedOf(lastMut[k], db[k])]_vars

C19_Witness ==
    \E t, u \in Threads :
        /\ pc[t] = "commit_lock_cache"
        /\ dbOwner = t
        /\ Returning(u, "put")
        /\ ret[u] = RetOk
        /\ db[key[u]] # cache[key[u]]

\* The engine contents a commit that visits every entry of overlay cmap
\* leaves, started on engine contents dmap.
CommitImage(cmap, dmap) ==
    [k \in Keys |-> IF cmap[k] = None THEN dmap[k]
                    ELSE IF cmap[k] = Tombstone THEN None
                    ELSE cmap[k]]

\* C20: retrying a failed commit converges.  The engine contents a complete
\* commit would leave are the same after every step in which no put, delete
\* or clear_cache acts: after each entry the loop applies, in whatever order,
\* after a commit stops with the engine's error and exits, and after
\* cache.clear(); and a commit that returns Ok has emptied the overlay, so the
\* engine then holds exactly those contents.  A commit that succeeds after
\* any number of failed ones therefore leaves the engine and the overlay a
\* single successful commit from the first state leaves.
C20_RetryConverges ==
    /\ [](\A t \in Threads :
            /\ (Returning(t, "commit") /\ ret[t] = RetOk) =>
                   /\ cache = EmptyMap
                   /\ db = CommitImage(OverlayOf(lastMut), snap)
            /\ (Returning(t, "commit") /\ ret[t] = ErrBackend) =>
                   /\ cache = OverlayOf(lastMut)
                   /\ CommitImage(cache, db) = CommitImage(cache, snap))
    /\ [][(\A t \in Threads :
               ~(pc[t] = "idle" /\ op'[t] \in {"put", "delete", "clear_cache"})) =>
           CommitImage(cache', db') = CommitImage(cache, db)]_vars

C20_Witness ==
    \E t \in Threads :
        /\ Returning(t, "commit")
        /\ ret[t] = ErrBackend
        /\ done[t] # {}
        /\ db # snap
        /\ db # CommitImage(cache, db)
        /\ CommitImage(cache, db) = CommitImage(cache, snap)
====
